---- MODULE Spec2Model ----
(***************************************************************************)
(* Hugging Face setup assistant: the Index page (analyzeRepository,        *)
(* handleAnalyze, handleNewAnalysis), the SetupForm component and the      *)
(* SetupGuide component (copyToClipboard), modelled as one state machine.  *)
(*                                                                         *)
(* Strings.  A JavaScript string is a TLA+ string.  A template literal     *)
(* that interpolates a value is the sequence of its pieces, in order:      *)
(* `conda create -n hf-app python=${specs.version}\n...` is                *)
(* <<"conda create -n hf-app python=", specs.version, "\n...">>;  the      *)
(* fields venvCommand and the entries of envSetup are such sequences in    *)
(* every case.  null is the string Null.                                   *)
(*                                                                         *)
(* Time.  Timers (the 2000 ms of analyzeRepository and of copyToClipboard) *)
(* hold the milliseconds left; Tick lets TickMs pass and is not enabled    *)
(* while a timer is due, a due timer's callback runs first.                *)
(***************************************************************************)
EXTENDS Integers, Sequences, FiniteSets, TLC

VARIABLES
    repoUrl,         \* SetupForm: the repoUrl state
    specs,           \* SetupForm: the specs state (DeviceSpecs)
    analysisResult,  \* Index: the bundle displayed, or NoResult
    currentRepo,     \* Index: the repoUrl given to the guide
    isLoading,       \* Index: the loading flag
    analyses,        \* calls of handleAnalyze awaiting analyzeRepository
    copiedCommand,   \* SetupGuide: the label marked as copied, or Null
    writes,          \* clipboard writes awaited by copyToClipboard
    timers,          \* pending setTimeout callbacks of copyToClipboard
    toasts,          \* the notifications emitted by the last step
    lastCopy,        \* history: the last successful copy of the displayed guide,
                     \* the time since, and the label it found marked
    lastSubmit,      \* history: the arguments of the last onAnalyze call
    replaced         \* history: the fields that the language selection that
                     \* just ran found set

vars == <<repoUrl, specs, analysisResult, currentRepo, isLoading, analyses,
          copiedCommand, writes, timers, toasts, lastCopy, lastSubmit, replaced>>

formVars == <<repoUrl, specs>>
pageVars == <<analysisResult, currentRepo, isLoading, analyses>>
guideVars == <<copiedCommand, writes, timers>>

----------------------------------------------------------------------------
(* Bounds of the model.                                                    *)

MaxVersions == 1   \* versions of each language offered to the model's user
MaxManagers == 1   \* package managers of each language offered
MaxOs == 1         \* operating systems offered
MaxGpu == 2        \* GPUs offered
MaxRam == 1        \* RAM sizes offered
MaxUrls == 1       \* repository URLs typed
MaxLabels == 2     \* code blocks whose copy button is clicked
MaxCopies == 2     \* copy requests in flight (awaited writes plus timers)
MaxParts == 3      \* parts a repository URL is put together from

----------------------------------------------------------------------------
(* Values.                                                                 *)

Null == "<null>"
NoResult == [isNull |-> TRUE]

AnalysisDelayMs == 2000
CopiedDisplayMs == 2000
TickMs == CopiedDisplayMs \div 2

Prefix(s, n) == {s[i] : i \in 1..(IF n < Len(s) THEN n ELSE Len(s))}

Min(a, b) == IF a < b THEN a ELSE b

RemoveAt(s, i) == SubSeq(s, 1, i - 1) \o SubSeq(s, i + 1, Len(s))

\* xs contains the pieces of sub, consecutively and in order
Contains(xs, sub) ==
    \E i \in 0..(Len(xs) - Len(sub)) :
        \A j \in 1..Len(sub) : xs[i + j] = sub[j]

----------------------------------------------------------------------------
(* SetupForm: the option lists.                                            *)

Languages == <<"python", "javascript", "r", "julia", "rust">>

getPackageManagerOptions(language) ==
    CASE language = "python" -> <<"pip", "conda", "mamba", "poetry">>
      [] language = "javascript" -> <<"npm", "yarn", "pnpm", "bun">>
      [] language = "r" -> <<"install.packages", "pak", "renv">>
      [] language = "julia" -> <<"pkg">>
      [] language = "rust" -> <<"cargo">>
      [] OTHER -> <<"default">>

getVersionOptions(language) ==
    CASE language = "python" -> <<"3.12", "3.11", "3.10", "3.9", "3.8">>
      [] language = "javascript" -> <<"20", "18", "16">>
      [] language = "r" -> <<"4.3", "4.2", "4.1">>
      [] language = "julia" -> <<"1.9", "1.8", "1.7">>
      [] language = "rust" -> <<"1.75", "1.74", "stable">>
      [] OTHER -> <<>>

OsOptions ==
    <<"windows11", "windows10", "macos", "ubuntu", "debian", "fedora", "arch">>

GpuOptions ==
    <<"none", "nvidia-rtx-4090", "nvidia-rtx-4080", "nvidia-rtx-4070",
      "nvidia-rtx-3080", "nvidia-rtx-3070", "nvidia-gtx-1660", "amd-rx-7900",
      "amd-rx-6800", "apple-m1">>

RamOptions == <<"8gb", "16gb", "32gb", "64gb", "128gb">>

Range(s) == {s[i] : i \in 1..Len(s)}

----------------------------------------------------------------------------
(* Index: analyzeRepository.                                               *)

\* variant: the version of the environment is a fixed one
PythonConfigFixedVersion(s) ==
    [techStack |-> <<"Transformers", "Gradio", "PyTorch", "NumPy">>,
     venvCommand |->
        IF s.packageManager = "conda"
        THEN <<"conda create -n hf-app python=", "3.10",
               "\nconda activate hf-app">>
        ELSE <<"python -m venv hf-app\nsource hf-app/bin/activate  # On Windows: hf-app\\Scripts\\activate">>,
     installCommand |->
        IF s.packageManager = "conda"
        THEN "conda install pytorch transformers gradio -c pytorch -c huggingface"
        ELSE "pip install torch transformers gradio accelerate",
     runCommand |-> "python app.py",
     accessUrl |-> "http://localhost:7860",
     envSetup |->
        << <<"Ensure you have at least 4GB of free disk space for models">>,
           <<"Set CUDA_VISIBLE_DEVICES if you have multiple GPUs">>,
           <<"Configure Hugging Face token if using gated models">>,
           <<"Install Git LFS for large model files if needed">> >>,
     troubleshooting |->
        <<"If CUDA out of memory, try reducing batch size or model precision",
          "For slow downloads, consider using a mirror or cache",
          "On Windows, you might need Visual Studio Build Tools",
          "For M1/M2 Macs, use MPS backend for acceleration">>]

PythonConfig(s) ==
    [techStack |-> <<"Transformers", "Gradio", "PyTorch", "NumPy">>,
     venvCommand |->
        IF s.packageManager = "conda"
        THEN <<"conda create -n hf-app python=", s.version,
               "\nconda activate hf-app">>
        ELSE <<"python -m venv hf-app\nsource hf-app/bin/activate  # On Windows: hf-app\\Scripts\\activate">>,
     installCommand |->
        IF s.packageManager = "conda"
        THEN "conda install pytorch transformers gradio -c pytorch -c huggingface"
        ELSE "pip install torch transformers gradio accelerate",
     runCommand |-> "python app.py",
     accessUrl |-> "http://localhost:7860",
     envSetup |->
        << <<"Ensure you have at least 4GB of free disk space for models">>,
           <<"Set CUDA_VISIBLE_DEVICES if you have multiple GPUs">>,
           <<"Configure Hugging Face token if using gated models">>,
           <<"Install Git LFS for large model files if needed">> >>,
     troubleshooting |->
        <<"If CUDA out of memory, try reducing batch size or model precision",
          "For slow downloads, consider using a mirror or cache",
          "On Windows, you might need Visual Studio Build Tools",
          "For M1/M2 Macs, use MPS backend for acceleration">>]

\* variant: the commands are those of npm for every package manager
JavascriptConfigNpmOnly(s) ==
    [techStack |-> <<"Transformers.js", "Node.js", "Express", "TensorFlow.js">>,
     venvCommand |-> <<"npm init -y">>,
     installCommand |->
        "npm install @huggingface/transformers @huggingface/hub express",
     runCommand |-> "node server.js",
     accessUrl |-> "http://localhost:3000",
     envSetup |->
        << <<"Ensure Node.js ", s.version, " is installed">>,
           <<"Install dependencies with your package manager">>,
           <<"Configure environment variables in .env file">>,
           <<"Set up CORS if accessing from browser">> >>,
     troubleshooting |->
        <<"If WebGPU not available, models will fallback to CPU",
          "Large models may require significant RAM",
          "Use model quantization for better performance",
          "Check browser compatibility for WebGL/WebGPU">>]

JavascriptConfig(s) ==
    [techStack |-> <<"Transformers.js", "Node.js", "Express", "TensorFlow.js">>,
     venvCommand |->
        IF s.packageManager = "yarn" THEN <<"yarn init -y">>
                                     ELSE <<"npm init -y">>,
     installCommand |->
        IF s.packageManager = "yarn"
        THEN "yarn add @huggingface/transformers @huggingface/hub express"
        ELSE "npm install @huggingface/transformers @huggingface/hub express",
     runCommand |-> "node server.js",
     accessUrl |-> "http://localhost:3000",
     envSetup |->
        << <<"Ensure Node.js ", s.version, " is installed">>,
           <<"Install dependencies with your package manager">>,
           <<"Configure environment variables in .env file">>,
           <<"Set up CORS if accessing from browser">> >>,
     troubleshooting |->
        <<"If WebGPU not available, models will fallback to CPU",
          "Large models may require significant RAM",
          "Use model quantization for better performance",
          "Check browser compatibility for WebGL/WebGPU">>]

\* variant: the run command of the r case is left empty
RConfigNoRunCommand(s) ==
    [techStack |-> <<"reticulate", "torch", "transformers (via Python)", "Shiny">>,
     venvCommand |-> <<"# R environment setup\ninstall.packages('renv')\nrenv::init()">>,
     installCommand |->
        "install.packages(c(\"reticulate\", \"shiny\"))\nreticulate::py_install(c(\"torch\", \"transformers\"))",
     runCommand |-> "",
     accessUrl |-> "http://localhost:3838",
     envSetup |->
        << <<"Install R and required packages">>,
           <<"Configure reticulate to use Python environment">>,
           <<"Install Python dependencies via reticulate">>,
           <<"Set up Shiny server for web interface">> >>,
     troubleshooting |->
        <<"Ensure Python and R can communicate via reticulate",
          "Install system dependencies for torch compilation",
          "Configure PATH variables for Python/R integration",
          "Use virtual environments to avoid conflicts">>]

RConfig(s) ==
    [techStack |-> <<"reticulate", "torch", "transformers (via Python)", "Shiny">>,
     venvCommand |-> <<"# R environment setup\ninstall.packages('renv')\nrenv::init()">>,
     installCommand |->
        "install.packages(c(\"reticulate\", \"shiny\"))\nreticulate::py_install(c(\"torch\", \"transformers\"))",
     runCommand |-> "Rscript app.R",
     accessUrl |-> "http://localhost:3838",
     envSetup |->
        << <<"Install R and required packages">>,
           <<"Configure reticulate to use Python environment">>,
           <<"Install Python dependencies via reticulate">>,
           <<"Set up Shiny server for web interface">> >>,
     troubleshooting |->
        <<"Ensure Python and R can communicate via reticulate",
          "Install system dependencies for torch compilation",
          "Configure PATH variables for Python/R integration",
          "Use virtual environments to avoid conflicts">>]

JuliaConfig(s) ==
    [techStack |-> <<"MLJ.jl", "Transformers.jl", "Flux.jl", "PlutoUI">>,
     venvCommand |-> <<"julia --project=.\nusing Pkg\nPkg.activate(\".\")">>,
     installCommand |-> "Pkg.add([\"MLJ\", \"Transformers\", \"Flux\", \"PlutoUI\"])",
     runCommand |-> "julia app.jl",
     accessUrl |-> "http://localhost:8000",
     envSetup |->
        << <<"Ensure Julia ", s.version, " is installed">>,
           <<"Create and activate project environment">>,
           <<"Install required Julia packages">>,
           <<"Configure CUDA.jl for GPU support if available">> >>,
     troubleshooting |->
        <<"Precompile packages to reduce startup time",
          "Use BinaryBuilder.jl for system dependencies",
          "Configure JULIA_NUM_THREADS for parallelization",
          "Check CUDA installation for GPU acceleration">>]

RustConfig(s) ==
    [techStack |-> <<"Candle", "Tokenizers", "Axum", "Serde">>,
     venvCommand |-> <<"cargo init hf-app\ncd hf-app">>,
     installCommand |-> "cargo add candle-core candle-nn tokenizers axum serde",
     runCommand |-> "cargo run",
     accessUrl |-> "http://localhost:8080",
     envSetup |->
        << <<"Ensure Rust ", s.version, " is installed">>,
           <<"Initialize Cargo project">>,
           <<"Add required dependencies to Cargo.toml">>,
           <<"Configure features for CUDA support if needed">> >>,
     troubleshooting |->
        <<"Compile with --release flag for better performance",
          "Install CUDA toolkit for GPU support",
          "Use cross-compilation for different targets",
          "Enable LTO for smaller binaries">>]

DefaultConfig ==
    [techStack |-> <<"Generic ML Framework">>,
     venvCommand |-> <<"# Environment setup varies by language">>,
     installCommand |-> "# Install language-specific dependencies",
     runCommand |-> "# Run application",
     accessUrl |-> "http://localhost:8000",
     envSetup |-> << <<"Configure your development environment">> >>,
     troubleshooting |-> <<"Check documentation for language-specific issues">>]

\* the outcome of a call that throws: the promise is rejected
Thrown == [isNull |-> TRUE, thrown |-> TRUE]

\* variant: the default case throws instead of returning a placeholder
getLanguageConfigThrows(s) ==
    CASE s.language = "python" -> PythonConfig(s)
      [] s.language = "javascript" -> JavascriptConfig(s)
      [] s.language = "r" -> RConfig(s)
      [] s.language = "julia" -> JuliaConfig(s)
      [] s.language = "rust" -> RustConfig(s)
      [] OTHER -> Thrown

\* variant: the rust case is missing
getLanguageConfigWithoutRust(s) ==
    CASE s.language = "python" -> PythonConfig(s)
      [] s.language = "javascript" -> JavascriptConfig(s)
      [] s.language = "r" -> RConfig(s)
      [] s.language = "julia" -> JuliaConfig(s)
      [] OTHER -> DefaultConfig

getLanguageConfig(s) ==
    CASE s.language = "python" -> PythonConfig(s)
      [] s.language = "javascript" -> JavascriptConfig(s)
      [] s.language = "r" -> RConfig(s)
      [] s.language = "julia" -> JuliaConfig(s)
      [] s.language = "rust" -> RustConfig(s)
      [] OTHER -> DefaultConfig

\* variant: the julia case is missing
estimatedTimeWithoutJulia(s) ==
    IF s.language = "rust" THEN "10-15 min" ELSE "5-10 min"

estimatedTime(s) ==
    IF s.language = "rust" THEN "10-15 min"
    ELSE IF s.language = "julia" THEN "8-12 min" ELSE "5-10 min"

\* variant: the small size is given to python
modelSizeOfPython(s) == IF s.language = "python" THEN "200 MB" ELSE "1.2 GB"

\* variant: the size depends on the gpu
modelSizeByGpu(s) ==
    IF s.language = "javascript" \/ s.gpu # "none" THEN "200 MB" ELSE "1.2 GB"

modelSize(s) == IF s.language = "javascript" THEN "200 MB" ELSE "1.2 GB"

\* variant: the first entry is Google Colab for every language
alternativesAlwaysColab(s) ==
    <<[name |-> "Google Colab",
       description |-> "Run in the cloud with free GPU access",
       url |-> "https://colab.research.google.com"],
      [name |-> "Hugging Face Spaces",
       description |-> "Deploy directly on Hugging Face infrastructure",
       url |-> "https://huggingface.co/spaces"],
      [name |-> "Docker Container",
       description |-> "Use pre-built container with all dependencies",
       url |-> Null]>>

alternatives(s) ==
    <<[name |-> IF s.language = "python" THEN "Google Colab" ELSE "CodeSandbox",
       description |-> IF s.language = "python"
                       THEN "Run in the cloud with free GPU access"
                       ELSE "Run in browser environment",
       url |-> IF s.language = "python" THEN "https://colab.research.google.com"
                                        ELSE "https://codesandbox.io"],
      [name |-> "Hugging Face Spaces",
       description |-> "Deploy directly on Hugging Face infrastructure",
       url |-> "https://huggingface.co/spaces"],
      [name |-> "Docker Container",
       description |-> "Use pre-built container with all dependencies",
       url |-> Null]>>

\* the value analyzeRepository resolves to, once its delay has passed
analyzeRepository(url, s) ==
    LET config == getLanguageConfig(s) IN
    IF config = Thrown THEN Thrown ELSE
    [isNull |-> FALSE,
     techStack |-> config.techStack,
     venvCommand |-> config.venvCommand,
     installCommand |-> config.installCommand,
     runCommand |-> config.runCommand,
     accessUrl |-> config.accessUrl,
     envSetup |-> config.envSetup,
     troubleshooting |-> config.troubleshooting,
     compatibility |-> "95%",
     estimatedTime |-> estimatedTime(s),
     modelSize |-> modelSize(s),
     alternatives |-> alternatives(s)]

----------------------------------------------------------------------------
(* SetupForm.                                                              *)

InitSpecs ==
    [language |-> "", version |-> "", os |-> "", gpu |-> "none", ram |-> "",
     packageManager |-> "", docker |-> FALSE]

InitRepoUrl == <<>>

\* "https://github.com/user/my-repo", character by character
UrlMyRepo ==
    <<"h", "t", "t", "p", "s", ":", "/", "/", "g", "i", "t", "h", "u", "b",
      ".", "c", "o", "m", "/", "u", "s", "e", "r", "/", "m", "y", "-", "r",
      "e", "p", "o">>

UrlSamples ==
    <<UrlMyRepo,
      UrlMyRepo \o <<".", "g", "i", "t">>,
      UrlMyRepo \o <<"/">> >>

UrlInputs == Prefix(UrlSamples, MaxUrls) \cup {<<>>}
VersionInputs(language) == Prefix(getVersionOptions(language), MaxVersions)
ManagerInputs(language) == Prefix(getPackageManagerOptions(language), MaxManagers)
OsInputs == Prefix(OsOptions, MaxOs)
GpuInputs == Prefix(GpuOptions, MaxGpu)
RamInputs == Prefix(RamOptions, MaxRam)

\* JavaScript truthiness of a string, and of a string kept as its characters
Truthy(str) == str # ""
TruthyChars(chars) == Len(chars) > 0

\* variant: ram is not required
isFormValidWithManager ==
    /\ TruthyChars(repoUrl)
    /\ Truthy(specs.language)
    /\ Truthy(specs.version)
    /\ Truthy(specs.os)
    /\ Truthy(specs.ram)
    /\ Truthy(specs.packageManager)

isFormValidWithoutRam ==
    /\ TruthyChars(repoUrl)
    /\ Truthy(specs.language)
    /\ Truthy(specs.version)
    /\ Truthy(specs.os)

isFormValid ==
    /\ TruthyChars(repoUrl)
    /\ Truthy(specs.language)
    /\ Truthy(specs.version)
    /\ Truthy(specs.os)
    /\ Truthy(specs.ram)

SubmitDisabledIgnoresLoading == ~isFormValid

\* the disabled attribute of the submit button
SubmitDisabled == ~isFormValid \/ isLoading

\* the form is rendered while there is no result
FormMounted == analysisResult = NoResult
GuideMounted == analysisResult # NoResult

NotReplaced == <<>>

NoCopy == [label |-> Null, elapsed |-> 0, over |-> Null]
NoSubmit == <<>>

FormStep ==
    /\ toasts' = <<>>
    /\ replaced' = NotReplaced
    /\ UNCHANGED <<pageVars, guideVars, lastCopy, lastSubmit>>

SetRepoUrl(value) ==
    /\ FormMounted
    /\ repoUrl' = value
    /\ UNCHANGED specs
    /\ FormStep

\* variant: only the language is replaced
SelectLanguageKeepsFields(value) ==
    /\ FormMounted
    /\ specs' = [specs EXCEPT !.language = value]
    /\ UNCHANGED repoUrl
    /\ toasts' = <<>>
    /\ replaced' = <<"language">>
                    \o (IF Truthy(specs.version) THEN <<"version">> ELSE <<>>)
                    \o (IF Truthy(specs.packageManager)
                        THEN <<"packageManager">> ELSE <<>>)
    /\ UNCHANGED <<pageVars, guideVars, lastCopy, lastSubmit>>

SelectLanguage(value) ==
    /\ FormMounted
    /\ specs' = [specs EXCEPT !.language = value, !.version = "",
                              !.packageManager = ""]
    /\ UNCHANGED repoUrl
    /\ toasts' = <<>>
    /\ replaced' = <<"language">>
                    \o (IF Truthy(specs.version) THEN <<"version">> ELSE <<>>)
                    \o (IF Truthy(specs.packageManager)
                        THEN <<"packageManager">> ELSE <<>>)
    /\ UNCHANGED <<pageVars, guideVars, lastCopy, lastSubmit>>

SelectVersion(value) ==
    /\ FormMounted
    /\ Truthy(specs.language)
    /\ specs' = [specs EXCEPT !.version = value]
    /\ UNCHANGED repoUrl
    /\ FormStep

\* variant: choosing the operating system clears the ram
SelectOsClearsRam(value) ==
    /\ FormMounted
    /\ specs' = [specs EXCEPT !.os = value, !.ram = ""]
    /\ UNCHANGED repoUrl
    /\ FormStep

SelectOs(value) ==
    /\ FormMounted
    /\ specs' = [specs EXCEPT !.os = value]
    /\ UNCHANGED repoUrl
    /\ FormStep

SelectGpu(value) ==
    /\ FormMounted
    /\ specs' = [specs EXCEPT !.gpu = value]
    /\ UNCHANGED repoUrl
    /\ FormStep

SelectRam(value) ==
    /\ FormMounted
    /\ specs' = [specs EXCEPT !.ram = value]
    /\ UNCHANGED repoUrl
    /\ FormStep

SelectPackageManager(value) ==
    /\ FormMounted
    /\ Truthy(specs.language)
    /\ specs' = [specs EXCEPT !.packageManager = value]
    /\ UNCHANGED repoUrl
    /\ FormStep

SelectDocker(value) ==
    /\ FormMounted
    /\ specs' = [specs EXCEPT !.docker = (value = "true")]
    /\ UNCHANGED repoUrl
    /\ FormStep

\* the condition of handleSubmit
handleSubmitAccepts ==
    /\ TruthyChars(repoUrl)
    /\ Truthy(specs.language)
    /\ Truthy(specs.version)
    /\ Truthy(specs.os)
    /\ Truthy(specs.ram)

\* Index.handleAnalyze up to its await
handleAnalyze(url, s) ==
    /\ isLoading' = TRUE
    /\ currentRepo' = url
    /\ analyses' = Append(analyses,
                          [repoUrl |-> url, specs |-> s,
                           remaining |-> AnalysisDelayMs])
    /\ lastSubmit' = <<[repoUrl |-> url, specs |-> s]>>
    /\ UNCHANGED analysisResult

\* the submit event of the form, which a disabled submit button does not raise
Submit ==
    /\ FormMounted
    /\ ~SubmitDisabled
    /\ IF handleSubmitAccepts
       THEN handleAnalyze(repoUrl, specs)
       ELSE UNCHANGED <<pageVars, lastSubmit>>
    /\ toasts' = <<>>
    /\ replaced' = NotReplaced
    /\ UNCHANGED <<formVars, guideVars, lastCopy>>

----------------------------------------------------------------------------
(* Index: the rest of handleAnalyze, and handleNewAnalysis.                *)

\* variant: the bundle is resolved from the form as it is when the delay ends
AnalysisDoneReadsForm(i) ==
    /\ i \in 1..Len(analyses)
    /\ analyses[i].remaining = 0
    /\ LET result == analyzeRepository(repoUrl, specs)
           shown == IF result = Thrown THEN analysisResult ELSE result
       IN /\ analysisResult' = shown
          /\ IF analysisResult = NoResult /\ shown # NoResult
             THEN /\ repoUrl' = InitRepoUrl
                  /\ specs' = InitSpecs
                  /\ copiedCommand' = Null
                  /\ lastCopy' = NoCopy
             ELSE UNCHANGED <<repoUrl, specs, copiedCommand, lastCopy>>
    /\ isLoading' = FALSE
    /\ analyses' = RemoveAt(analyses, i)
    /\ toasts' = <<>>
    /\ replaced' = NotReplaced
    /\ UNCHANGED <<currentRepo, writes, timers, lastSubmit>>

\* variant: without the finally block of handleAnalyze
AnalysisDoneKeepsLoading(i) ==
    /\ i \in 1..Len(analyses)
    /\ analyses[i].remaining = 0
    /\ LET result == analyzeRepository(analyses[i].repoUrl, analyses[i].specs)
           shown == IF result = Thrown THEN analysisResult ELSE result
       IN /\ analysisResult' = shown
          /\ IF analysisResult = NoResult /\ shown # NoResult
             THEN /\ repoUrl' = InitRepoUrl
                  /\ specs' = InitSpecs
                  /\ copiedCommand' = Null
                  /\ lastCopy' = NoCopy
             ELSE UNCHANGED <<repoUrl, specs, copiedCommand, lastCopy>>
    /\ analyses' = RemoveAt(analyses, i)
    /\ toasts' = <<>>
    /\ replaced' = NotReplaced
    /\ UNCHANGED <<isLoading, currentRepo, writes, timers, lastSubmit>>

\* the delay of analyzeRepository has passed: the await of handleAnalyze
\* resumes with the result, or with the rejection
AnalysisDone(i) ==
    /\ i \in 1..Len(analyses)
    /\ analyses[i].remaining = 0
    /\ LET result == analyzeRepository(analyses[i].repoUrl, analyses[i].specs)
           shown == IF result = Thrown THEN analysisResult ELSE result
       IN /\ analysisResult' = shown
          \* the form is replaced by the guide
          /\ IF analysisResult = NoResult /\ shown # NoResult
             THEN /\ repoUrl' = InitRepoUrl
                  /\ specs' = InitSpecs
                  /\ copiedCommand' = Null
                  /\ lastCopy' = NoCopy
             ELSE UNCHANGED <<repoUrl, specs, copiedCommand, lastCopy>>
    /\ isLoading' = FALSE
    /\ analyses' = RemoveAt(analyses, i)
    /\ toasts' = <<>>
    /\ replaced' = NotReplaced
    /\ UNCHANGED <<currentRepo, writes, timers, lastSubmit>>

\* variant: the new form is filled with what was submitted before
handleNewAnalysisRestoresForm ==
    /\ GuideMounted
    /\ analysisResult' = NoResult
    /\ currentRepo' = <<>>
    /\ repoUrl' = lastSubmit[1].repoUrl
    /\ specs' = lastSubmit[1].specs
    /\ copiedCommand' = Null
    /\ writes' = <<>>
    /\ timers' = <<>>
    /\ lastCopy' = NoCopy
    /\ toasts' = <<>>
    /\ replaced' = NotReplaced
    /\ UNCHANGED <<isLoading, analyses, lastSubmit>>

handleNewAnalysisKeepsRepo ==
    /\ GuideMounted
    /\ analysisResult' = NoResult
    /\ repoUrl' = InitRepoUrl
    /\ specs' = InitSpecs
    /\ copiedCommand' = Null
    /\ writes' = <<>>
    /\ timers' = <<>>
    /\ lastCopy' = NoCopy
    /\ toasts' = <<>>
    /\ replaced' = NotReplaced
    /\ UNCHANGED <<currentRepo, isLoading, analyses, lastSubmit>>

handleNewAnalysis ==
    /\ GuideMounted
    /\ analysisResult' = NoResult
    /\ currentRepo' = <<>>
    \* the guide is replaced by a new form.  What the guide still awaits
    \* (writes, timers) can set no state any more, of this guide or of a
    \* later one, and is forgotten.
    /\ repoUrl' = InitRepoUrl
    /\ specs' = InitSpecs
    /\ copiedCommand' = Null
    /\ writes' = <<>>
    /\ timers' = <<>>
    /\ lastCopy' = NoCopy
    /\ toasts' = <<>>
    /\ replaced' = NotReplaced
    /\ UNCHANGED <<isLoading, analyses, lastSubmit>>

----------------------------------------------------------------------------
(* SetupGuide: copyToClipboard.                                            *)

Titles ==
    <<"Clone Repository", "Create Virtual Environment", "Install Dependencies",
      "Start Application">>

LabelInputs == Prefix(Titles, MaxLabels)

SuccessToast(commandType) ==
    [title |-> "Copied to clipboard",
     description |-> <<commandType, " command copied successfully">>,
     variant |-> Null]

FailureToast ==
    [title |-> "Failed to copy",
     description |-> <<"Could not copy to clipboard">>,
     variant |-> "destructive"]

\* variant: the indicator is shown whenever some label is copied
CopiedAnyTitle(title) == copiedCommand # Null

\* the copy button of the code block `title` shows the copied indicator
Copied(title) == copiedCommand = title

\* a click on the copy button of a code block: copyToClipboard up to its await
CopyClick(commandType) ==
    /\ GuideMounted
    /\ Len(writes) + Len(timers) < MaxCopies
    /\ writes' = Append(writes, commandType)
    /\ toasts' = <<>>
    /\ replaced' = NotReplaced
    /\ UNCHANGED <<formVars, pageVars, copiedCommand, timers, lastCopy,
                   lastSubmit>>

\* variant: no timer is set
WriteSuccessNoTimer(i) ==
    /\ i \in 1..Len(writes)
    /\ copiedCommand' = writes[i]
    /\ toasts' = <<SuccessToast(writes[i])>>
    /\ timers' = timers
    /\ lastCopy' = [label |-> writes[i], elapsed |-> 0,
                    over |-> copiedCommand]
    /\ writes' = RemoveAt(writes, i)
    /\ replaced' = NotReplaced
    /\ UNCHANGED <<formVars, pageVars, lastSubmit>>

\* writeText resolved: the try block continues
WriteSuccess(i) ==
    /\ i \in 1..Len(writes)
    /\ copiedCommand' = writes[i]
    /\ toasts' = <<SuccessToast(writes[i])>>
    /\ timers' = Append(timers, [remaining |-> CopiedDisplayMs])
    /\ lastCopy' = [label |-> writes[i], elapsed |-> 0,
                    over |-> copiedCommand]
    /\ writes' = RemoveAt(writes, i)
    /\ replaced' = NotReplaced
    /\ UNCHANGED <<formVars, pageVars, lastSubmit>>

\* variant: the catch block marks the label as well
WriteFailureMarksCopied(i) ==
    /\ i \in 1..Len(writes)
    /\ toasts' = <<FailureToast>>
    /\ copiedCommand' = writes[i]
    /\ writes' = RemoveAt(writes, i)
    /\ replaced' = NotReplaced
    /\ UNCHANGED <<formVars, pageVars, timers, lastCopy, lastSubmit>>

\* writeText rejected: the catch block
WriteFailure(i) ==
    /\ i \in 1..Len(writes)
    /\ toasts' = <<FailureToast>>
    /\ writes' = RemoveAt(writes, i)
    /\ replaced' = NotReplaced
    /\ UNCHANGED <<formVars, pageVars, copiedCommand, timers, lastCopy,
                   lastSubmit>>

\* the callback of setTimeout(() => setCopiedCommand(null), 2000)
CopiedTimeout(i) ==
    /\ i \in 1..Len(timers)
    /\ timers[i].remaining = 0
    /\ copiedCommand' = Null
    /\ timers' = RemoveAt(timers, i)
    /\ toasts' = <<>>
    /\ replaced' = NotReplaced
    /\ UNCHANGED <<formVars, pageVars, writes, lastCopy, lastSubmit>>

----------------------------------------------------------------------------
(* Time.                                                                   *)

Elapse(s) == [i \in 1..Len(s) |-> [s[i] EXCEPT !.remaining = @ - TickMs]]

TimerPending == Len(timers) + Len(analyses) > 0

Tick ==
    /\ TimerPending \/ (lastCopy # NoCopy /\ lastCopy.elapsed < CopiedDisplayMs)
    /\ \A i \in 1..Len(timers) : timers[i].remaining >= TickMs
    /\ \A i \in 1..Len(analyses) : analyses[i].remaining >= TickMs
    /\ timers' = Elapse(timers)
    /\ analyses' = Elapse(analyses)
    /\ lastCopy' = IF lastCopy = NoCopy THEN NoCopy
                   ELSE [lastCopy EXCEPT
                            !.elapsed = Min(@ + TickMs, CopiedDisplayMs)]
    /\ toasts' = <<>>
    /\ replaced' = NotReplaced
    /\ UNCHANGED <<formVars, analysisResult, currentRepo, isLoading,
                   copiedCommand, writes, lastSubmit>>

----------------------------------------------------------------------------
(* The page: the form, the simulated analysis and the guide.               *)

Init ==
    /\ repoUrl = InitRepoUrl
    /\ specs = InitSpecs
    /\ analysisResult = NoResult
    /\ currentRepo = <<>>
    /\ isLoading = FALSE
    /\ analyses = <<>>
    /\ copiedCommand = Null
    /\ writes = <<>>
    /\ timers = <<>>
    /\ toasts = <<>>
    /\ lastCopy = NoCopy
    /\ lastSubmit = NoSubmit
    /\ replaced = NotReplaced

Next ==
    \/ \E value \in UrlInputs : SetRepoUrl(value)
    \/ \E value \in Range(Languages) : SelectLanguage(value)
    \/ \E value \in VersionInputs(specs.language) : SelectVersion(value)
    \/ \E value \in OsInputs : SelectOs(value)
    \/ \E value \in GpuInputs : SelectGpu(value)
    \/ \E value \in RamInputs : SelectRam(value)
    \/ \E value \in ManagerInputs(specs.language) : SelectPackageManager(value)
    \/ \E value \in {"true", "false"} : SelectDocker(value)
    \/ Submit
    \/ \E i \in 1..Len(analyses) : AnalysisDone(i)
    \/ handleNewAnalysis
    \/ \E commandType \in LabelInputs : CopyClick(commandType)
    \/ \E i \in 1..Len(writes) : WriteSuccess(i)
    \/ \E i \in 1..Len(writes) : WriteFailure(i)
    \/ \E i \in 1..Len(timers) : CopiedTimeout(i)
    \/ Tick

Spec == Init /\ [][Next]_vars

\* time passes, and a setTimeout callback that is due runs
TimersFair ==
    /\ WF_vars(Tick)
    /\ WF_vars(\E i \in 1..Len(analyses) : AnalysisDone(i))

SpecLive == Spec /\ TimersFair

----------------------------------------------------------------------------
(* The form alone: the fields are edited and nothing is submitted.         *)

NextForm ==
    \/ \E value \in UrlInputs : SetRepoUrl(value)
    \/ \E value \in Range(Languages) : SelectLanguage(value)
    \/ \E value \in VersionInputs(specs.language) : SelectVersion(value)
    \/ \E value \in OsInputs : SelectOs(value)
    \/ \E value \in GpuInputs : SelectGpu(value)
    \/ \E value \in RamInputs : SelectRam(value)
    \/ \E value \in ManagerInputs(specs.language) : SelectPackageManager(value)
    \/ \E value \in {"true", "false"} : SelectDocker(value)

SpecForm == Init /\ [][NextForm]_vars

----------------------------------------------------------------------------
(* The guide alone, from the moment it is displayed: the states AnalysisDone *)
(* leaves for a form filled with a language, its first version, the first  *)
(* operating system and the first RAM size.                                *)

GuideSpecs ==
    {[InitSpecs EXCEPT !.language = l, !.version = getVersionOptions(l)[1],
                       !.os = OsOptions[1], !.ram = RamOptions[1]] :
        l \in Range(Languages)}

InitGuide ==
    /\ repoUrl = InitRepoUrl
    /\ specs = InitSpecs
    /\ \E url \in UrlInputs \ {<<>>} : \E s \in GuideSpecs :
         /\ analysisResult = analyzeRepository(url, s)
         /\ currentRepo = url
         /\ lastSubmit = <<[repoUrl |-> url, specs |-> s]>>
    /\ isLoading = FALSE
    /\ analyses = <<>>
    /\ copiedCommand = Null
    /\ writes = <<>>
    /\ timers = <<>>
    /\ toasts = <<>>
    /\ lastCopy = NoCopy
    /\ replaced = NotReplaced

NextGuide ==
    \/ \E commandType \in LabelInputs : CopyClick(commandType)
    \/ \E i \in 1..Len(writes) : WriteSuccess(i)
    \/ \E i \in 1..Len(writes) : WriteFailure(i)
    \/ \E i \in 1..Len(timers) : CopiedTimeout(i)
    \/ Tick

SpecGuide == InitGuide /\ [][NextGuide]_vars

----------------------------------------------------------------------------
(* SetupGuide: the command of the "Clone Repository" code block, for URLs  *)
(* put together from a few parts after "https://github.com/user/".         *)

\* String.prototype.split with a one-character separator
RECURSIVE split(_, _)
split(chars, separator) ==
    IF \E i \in 1..Len(chars) : chars[i] = separator
    THEN LET i == CHOOSE k \in 1..Len(chars) :
                    /\ chars[k] = separator
                    /\ \A j \in 1..(k - 1) : chars[j] # separator
         IN <<SubSeq(chars, 1, i - 1)>>
                \o split(SubSeq(chars, i + 1, Len(chars)), separator)
    ELSE <<chars>>

\* Array.prototype.pop: the last element
pop(array) == array[Len(array)]

MatchesAt(chars, pattern, i) ==
    /\ i + Len(pattern) - 1 <= Len(chars)
    /\ \A j \in 1..Len(pattern) : chars[i + j - 1] = pattern[j]

\* String.prototype.replace with a string pattern: the first occurrence
replace(chars, pattern, replacement) ==
    IF \E i \in 1..Len(chars) : MatchesAt(chars, pattern, i)
    THEN LET i == CHOOSE k \in 1..Len(chars) :
                    /\ MatchesAt(chars, pattern, k)
                    /\ \A j \in 1..(k - 1) : ~MatchesAt(chars, pattern, j)
         IN SubSeq(chars, 1, i - 1) \o replacement
                \o SubSeq(chars, i + Len(pattern), Len(chars))
    ELSE chars

DotGit == <<".", "g", "i", "t">>
RepoPlaceholder == <<"r", "e", "p", "o">>

\* repoUrl.split('/').pop()?.replace('.git', '') || 'repo'
cloneDirectory(url) ==
    LET name == replace(pop(split(url, "/")), DotGit, <<>>)
    IN IF TruthyChars(name) THEN name ELSE RepoPlaceholder

\* `git clone ${repoUrl}\ncd ${...}`
cloneCommand(url) == <<"git clone ", url, "\ncd ", cloneDirectory(url)>>

CloneBase == SubSeq(UrlMyRepo, 1, 24)
CloneParts == {SubSeq(UrlMyRepo, 25, 31), <<"/">>, DotGit}

RECURSIVE CloneTails(_)
CloneTails(n) ==
    IF n = 0 THEN {<<>>}
    ELSE LET shorter == CloneTails(n - 1)
         IN shorter \cup {t \o p : t \in shorter, p \in CloneParts}

CloneUrls == {CloneBase \o t : t \in CloneTails(MaxParts)}

InitClone ==
    /\ repoUrl = InitRepoUrl
    /\ specs = InitSpecs
    /\ \E url \in CloneUrls : \E s \in GuideSpecs :
         /\ analysisResult = analyzeRepository(url, s)
         /\ currentRepo = url
         /\ lastSubmit = <<[repoUrl |-> url, specs |-> s]>>
    /\ isLoading = FALSE
    /\ analyses = <<>>
    /\ copiedCommand = Null
    /\ writes = <<>>
    /\ timers = <<>>
    /\ toasts = <<>>
    /\ lastCopy = NoCopy
    /\ replaced = NotReplaced

SpecClone == InitClone /\ [][NextGuide]_vars

----------------------------------------------------------------------------
(* analyzeRepository called directly, with specs no form restricts.        *)

UnknownLanguages == {"", "go"}

AnyLanguage == Range(Languages) \cup UnknownLanguages

AnyVersion ==
    UNION {Range(getVersionOptions(l)) : l \in Range(Languages)} \cup {""}

AnyManager ==
    UNION {Range(getPackageManagerOptions(l)) : l \in AnyLanguage} \cup {""}

AnySpecs ==
    {[InitSpecs EXCEPT !.language = l, !.version = v, !.packageManager = m,
                       !.os = o, !.ram = r] :
        l \in AnyLanguage, v \in AnyVersion, m \in AnyManager,
        o \in OsInputs, r \in RamInputs}

InitResolve ==
    /\ repoUrl \in UrlInputs
    /\ specs \in AnySpecs
    /\ analysisResult = NoResult
    /\ currentRepo = repoUrl
    /\ isLoading = TRUE
    /\ analyses = <<[repoUrl |-> repoUrl, specs |-> specs,
                     remaining |-> AnalysisDelayMs]>>
    /\ copiedCommand = Null
    /\ writes = <<>>
    /\ timers = <<>>
    /\ toasts = <<>>
    /\ lastCopy = NoCopy
    /\ lastSubmit = <<[repoUrl |-> repoUrl, specs |-> specs]>>
    /\ replaced = NotReplaced

NextResolve ==
    \/ Tick
    \/ \E i \in 1..Len(analyses) : AnalysisDone(i)

SpecResolve == InitResolve /\ [][NextResolve]_vars

----------------------------------------------------------------------------
(* The claims.                                                             *)

\* C1: right after a language has been selected in the form (any of the five,
\* the current one included), version and packageManager are empty, whatever
\* they were before, and language is one of the five.
C1_LanguageResets ==
    replaced # NotReplaced =>
        /\ specs.version = ""
        /\ specs.packageManager = ""
        /\ specs.language \in Range(Languages)

\* a language has just been selected while a version and a package manager
\* were set
C1_Witness ==
    /\ replaced = <<"language", "version", "packageManager">>
    /\ specs.version = ""

RequiredEmpty ==
    \/ Len(repoUrl) = 0
    \/ specs.language = ""
    \/ specs.version = ""
    \/ specs.os = ""
    \/ specs.ram = ""

CallHasRequired(call) ==
    /\ Len(call.repoUrl) > 0
    /\ call.specs.language # ""
    /\ call.specs.version # ""
    /\ call.specs.os # ""
    /\ call.specs.ram # ""

\* C2 as stated: while the form is shown, the submit button is disabled
\* exactly when one of repoUrl, language, version, os, ram is empty.
C2_Original ==
    FormMounted => (SubmitDisabled <=> RequiredEmpty)

\* C2 as amended: while the form is shown, the submit button is disabled when
\* one of repoUrl, language, version, os, ram is empty, and is enabled when
\* all five are filled and no analysis is loading; every call of onAnalyze
\* (awaited, or the last one made) has all five filled.
C2_SubmitGate ==
    /\ FormMounted => (SubmitDisabled <=> (RequiredEmpty \/ isLoading))
    /\ \A i \in 1..Len(analyses) : CallHasRequired(analyses[i])
    /\ \A i \in 1..Len(lastSubmit) : CallHasRequired(lastSubmit[i])

\* a form submitted while its fields are filled: the analysis is awaited and
\* the button, all five fields filled, is disabled
C2_Witness ==
    /\ FormMounted
    /\ ~RequiredEmpty
    /\ isLoading
    /\ SubmitDisabled
    /\ Len(analyses) = 1

NoTimerDue == \A i \in 1..Len(timers) : timers[i].remaining > 0

C3_SuccessStep ==
    \A i \in 1..Len(writes) :
        WriteSuccess(i) =>
            /\ copiedCommand' = writes[i]
            /\ toasts' = <<SuccessToast(writes[i])>>

C3_ClearedAfterDuration ==
    (/\ lastCopy # NoCopy
     /\ lastCopy.elapsed >= CopiedDisplayMs
     /\ NoTimerDue) => copiedCommand = Null

\* C3: a clipboard write that succeeds marks its label as copied in the same
\* step and emits the success notification of that label, and no other; once
\* 2000 ms have passed since the last success and the due timer callbacks
\* have run, no label is marked as copied.
C3_CopySuccess == [][C3_SuccessStep]_vars /\ []C3_ClearedAfterDuration

\* a label was copied, 2000 ms passed, its timer ran: nothing is marked
C3_Witness ==
    /\ lastCopy # NoCopy
    /\ lastCopy.elapsed = CopiedDisplayMs
    /\ timers = <<>>
    /\ copiedCommand = Null

C4_FailureStep ==
    \A i \in 1..Len(writes) :
        WriteFailure(i) =>
            /\ copiedCommand' = copiedCommand
            /\ timers' = timers
            /\ toasts' = <<FailureToast>>
            /\ writes' = RemoveAt(writes, i)
            /\ analysisResult' = analysisResult
            /\ Len(writes') + Len(timers') < MaxCopies

\* C4: a clipboard write that fails leaves the copied label and the timers as
\* they were, emits the error notification and nothing else, starts no new
\* write, and leaves the guide displayed with room for a further copy.
C4_CopyFailure == [][C4_FailureStep]_vars

\* a write has just failed while another label is marked as copied
C4_Witness ==
    /\ toasts = <<FailureToast>>
    /\ copiedCommand # Null
    /\ Len(timers) = 1

\* C5: a label copied while another label was marked as copied is marked
\* as copied as long as less than 2000 ms have passed since its own copy.
C5_MarkedForWholeDuration ==
    (/\ lastCopy # NoCopy
     /\ lastCopy.over \notin {Null, lastCopy.label}
     /\ lastCopy.elapsed < CopiedDisplayMs) => Copied(lastCopy.label)

\* C6: at most one code block shows the copied indicator, and the copied
\* label is a title of the guide or none.
C6_OneCopiedLabel ==
    /\ \A a \in Range(Titles) : \A b \in Range(Titles) :
            (Copied(a) /\ Copied(b)) => a = b
    /\ copiedCommand \in Range(Titles) \cup {Null}

\* two copies of different labels overlap: the second label is marked while
\* the timers of both are pending
C6_Witness ==
    /\ Len(timers) = 2
    /\ copiedCommand = Titles[2]
    /\ Copied(Titles[2])
    /\ ~Copied(Titles[1])

\* the call of analyzeRepository made in SpecResolve has returned
Resolved == analyses = <<>> /\ Len(lastSubmit) = 1

Submitted == lastSubmit[1].specs

\* C7: every call returns a bundle, whatever the language; for a language
\* that is none of the five, the bundle is the placeholder, the same for
\* every packageManager.
C7_NeverFails ==
    Resolved =>
        /\ analysisResult.isNull = FALSE
        /\ Submitted.language \notin Range(Languages) =>
            /\ analysisResult.techStack = <<"Generic ML Framework">>
            /\ Len(analysisResult.envSetup) = 1
            /\ Len(analysisResult.troubleshooting) = 1
            /\ \A m \in AnyManager :
                 analyzeRepository(lastSubmit[1].repoUrl,
                                   [Submitted EXCEPT !.packageManager = m])
                    = analysisResult

\* the call with a language outside the five returned the placeholder
C7_Witness ==
    /\ Resolved
    /\ Submitted.language = "go"
    /\ Submitted.packageManager = "conda"
    /\ analysisResult.isNull = FALSE
    /\ analysisResult.runCommand = "# Run application"

\* C8: for each of the five languages, every version and every package
\* manager, the bundle has a non-empty techStack and a non-empty runCommand.
C8_StackAndRun ==
    (Resolved /\ Submitted.language \in Range(Languages)) =>
        /\ analysisResult.isNull = FALSE
        /\ Len(analysisResult.techStack) > 0
        /\ analysisResult.runCommand # ""

\* the call for r, with a version and a package manager of another language
C8_Witness ==
    /\ Resolved
    /\ Submitted.language = "r"
    /\ Submitted.version = "stable"
    /\ Submitted.packageManager = "cargo"
    /\ analysisResult.isNull = FALSE
    /\ analysisResult.runCommand = "Rscript app.R"

\* C9: for python with conda and each python version of the form, the
\* environment command contains "conda create -n hf-app python=" followed by
\* the version of the specs.
C9_CondaVersion ==
    (/\ Resolved
     /\ Submitted.language = "python"
     /\ Submitted.packageManager = "conda"
     /\ Submitted.version \in Range(getVersionOptions("python"))) =>
        /\ analysisResult.isNull = FALSE
        /\ Contains(analysisResult.venvCommand,
                    <<"conda create -n hf-app python=", Submitted.version>>)

\* the call for python 3.8 with conda
C9_Witness ==
    /\ Resolved
    /\ Submitted.language = "python"
    /\ Submitted.packageManager = "conda"
    /\ Submitted.version = "3.8"
    /\ analysisResult.isNull = FALSE
    /\ analysisResult.venvCommand[2] = "3.8"

\* C10: modelSize is "200 MB" for javascript and "1.2 GB" for every other
\* language, known or not, whatever the version and the package manager.
C10_ModelSize ==
    Resolved =>
        /\ analysisResult.isNull = FALSE
        /\ analysisResult.modelSize =
              IF Submitted.language = "javascript" THEN "200 MB" ELSE "1.2 GB"

\* the call for javascript returned the small size
C10_Witness ==
    /\ Resolved
    /\ Submitted.language = "javascript"
    /\ analysisResult.isNull = FALSE
    /\ analysisResult.modelSize = "200 MB"

\* C11: estimatedTime depends on the language only: "10-15 min" for rust,
\* "8-12 min" for julia and "5-10 min" for every other language, known or
\* not, whatever the version and the package manager.
C11_EstimatedTime ==
    Resolved =>
        /\ analysisResult.isNull = FALSE
        /\ analysisResult.estimatedTime =
              CASE Submitted.language = "rust" -> "10-15 min"
                [] Submitted.language = "julia" -> "8-12 min"
                [] OTHER -> "5-10 min"

\* the call for julia returned its own estimate
C11_Witness ==
    /\ Resolved
    /\ Submitted.language = "julia"
    /\ analysisResult.isNull = FALSE
    /\ analysisResult.estimatedTime = "8-12 min"

ColabEntry ==
    [name |-> "Google Colab",
     description |-> "Run in the cloud with free GPU access",
     url |-> "https://colab.research.google.com"]

SandboxEntry ==
    [name |-> "CodeSandbox",
     description |-> "Run in browser environment",
     url |-> "https://codesandbox.io"]

\* C12: alternatives has exactly 3 entries: Google Colab for python and
\* CodeSandbox for every other language, then Hugging Face Spaces with its
\* url, then Docker Container with no url.
C12_Alternatives ==
    Resolved =>
        /\ analysisResult.isNull = FALSE
        /\ Len(analysisResult.alternatives) = 3
        /\ analysisResult.alternatives[1] =
              IF Submitted.language = "python" THEN ColabEntry
                                               ELSE SandboxEntry
        /\ analysisResult.alternatives[2].name = "Hugging Face Spaces"
        /\ analysisResult.alternatives[2].url = "https://huggingface.co/spaces"
        /\ analysisResult.alternatives[3].name = "Docker Container"
        /\ analysisResult.alternatives[3].url = Null

\* the call for rust returned CodeSandbox first
C12_Witness ==
    /\ Resolved
    /\ Submitted.language = "rust"
    /\ analysisResult.isNull = FALSE
    /\ analysisResult.alternatives[1].name = "CodeSandbox"

\* the environment and install commands of a bundle
Commands(bundle) == <<bundle.venvCommand, bundle.installCommand>>

\* some package manager of the language's option set gives other commands
\* than the bundle returned
ManagerChangesCommands ==
    \E m \in Range(getPackageManagerOptions(Submitted.language)) :
        Commands(analyzeRepository(lastSubmit[1].repoUrl,
                                   [Submitted EXCEPT !.packageManager = m]))
            # Commands(analysisResult)

\* C13 as stated: for each of the five languages, the option set of the
\* language holds a package manager that gives other commands than the
\* bundle returned.
C13_Original ==
    (Resolved /\ Submitted.language \in Range(Languages)) =>
        ManagerChangesCommands

\* C13 as amended: the commands depend on the package manager for python
\* and javascript, and only for these; for r, julia and rust every package
\* manager of the option set gives the commands of the bundle returned.
C13_TwoVariants ==
    (Resolved /\ Submitted.language \in Range(Languages)) =>
        /\ analysisResult.isNull = FALSE
        /\ ManagerChangesCommands
              <=> Submitted.language \in {"python", "javascript"}

\* the call for javascript with npm: yarn gives other commands
C13_Witness ==
    /\ Resolved
    /\ Submitted.language = "javascript"
    /\ Submitted.packageManager = "npm"
    /\ analysisResult.isNull = FALSE
    /\ Commands(analyzeRepository(lastSubmit[1].repoUrl,
                                  [Submitted EXCEPT !.packageManager = "yarn"]))
          # Commands(analysisResult)

EndsWith(chars, suffix) ==
    /\ Len(suffix) <= Len(chars)
    /\ SubSeq(chars, Len(chars) - Len(suffix) + 1, Len(chars)) = suffix

AfterLastSlash(chars) ==
    LET slashes == {i \in 1..Len(chars) : chars[i] = "/"}
        last == IF slashes = {} THEN 0
                ELSE CHOOSE i \in slashes : \A j \in slashes : j <= i
    IN SubSeq(chars, last + 1, Len(chars))

\* the directory name as C14 derives it
TrailingGitStripped(url) ==
    LET stripped == IF EndsWith(url, DotGit)
                    THEN SubSeq(url, 1, Len(url) - Len(DotGit)) ELSE url
        segment == AfterLastSlash(stripped)
    IN IF segment = <<>> THEN RepoPlaceholder ELSE segment

\* C14: the directory of the clone command is the final "/"-separated
\* segment of repoUrl without a trailing ".git", or "repo" when that is
\* empty; a ".git" elsewhere stays.
C14_DirectoryName ==
    GuideMounted =>
        /\ cloneDirectory(currentRepo) = TrailingGitStripped(currentRepo)
        /\ cloneCommand(currentRepo)[4] = TrailingGitStripped(currentRepo)

\* version and packageManager are unset or among the options of the language
WithinOptions(s) ==
    /\ s.version \in Range(getVersionOptions(s.language)) \cup {""}
    /\ s.packageManager \in Range(getPackageManagerOptions(s.language)) \cup {""}

\* C15: a non-empty version or packageManager is one of the options of the
\* language the specs hold, in the form and in every specs handed to
\* onAnalyze, also after the language was changed.
C15_OptionsOfLanguage ==
    /\ WithinOptions(specs)
    /\ \A i \in 1..Len(analyses) : WithinOptions(analyses[i].specs)
    /\ \A i \in 1..Len(lastSubmit) : WithinOptions(lastSubmit[i].specs)

C15_Witness ==
    /\ Len(lastSubmit) = 1
    /\ lastSubmit[1].specs.language = "python"
    /\ lastSubmit[1].specs.version # ""
    /\ lastSubmit[1].specs.packageManager # ""
    /\ FormMounted
    /\ specs.language = "rust"
    /\ specs.version # ""
    /\ specs.packageManager # ""

ManagerChosen(s) ==
    s.packageManager \in Range(getPackageManagerOptions(s.language))

\* C16 as stated: the specs handed to the resolver carry a package manager
\* of the option set of their language, also when the user chose none.
C16_Original ==
    /\ \A i \in 1..Len(analyses) : ManagerChosen(analyses[i].specs)
    /\ \A i \in 1..Len(lastSubmit) : ManagerChosen(lastSubmit[i].specs)

FirstManager(language) == getPackageManagerOptions(language)[1]

\* C16: packageManager is not required: with the five required fields
\* filled and no package manager chosen the submit button is enabled; the
\* specs handed to the resolver then carry the empty packageManager, and
\* the bundle displayed is the one of the first package manager of the
\* language's options.
C16_ManagerOptional ==
    /\ (FormMounted /\ ~RequiredEmpty /\ ~isLoading /\ specs.packageManager = "")
           => ~SubmitDisabled
    /\ \A i \in 1..Len(analyses) :
           \/ analyses[i].specs.packageManager = ""
           \/ ManagerChosen(analyses[i].specs)
    /\ \A i \in 1..Len(lastSubmit) :
           \/ lastSubmit[i].specs.packageManager = ""
           \/ ManagerChosen(lastSubmit[i].specs)
    /\ (GuideMounted /\ Submitted.packageManager = "") =>
           analysisResult =
               analyzeRepository(lastSubmit[1].repoUrl,
                   [Submitted EXCEPT !.packageManager = FirstManager(Submitted.language)])

C16_Witness ==
    /\ GuideMounted
    /\ Submitted.language = "python"
    /\ Submitted.packageManager = ""
    /\ analysisResult.venvCommand =
           PythonConfig([Submitted EXCEPT !.packageManager = "pip"]).venvCommand

\* C17: the step that takes the page from the guide back to the form leaves
\* no bundle and an empty stored repoUrl, with no analysis loading or
\* awaited: the page state is the one of a page just opened, and the form
\* shown is empty.
C17_ResetClears ==
    [][(GuideMounted /\ FormMounted') =>
          /\ analysisResult' = NoResult
          /\ currentRepo' = <<>>
          /\ isLoading' = FALSE
          /\ analyses' = <<>>
          /\ repoUrl' = InitRepoUrl
          /\ specs' = InitSpecs
          /\ copiedCommand' = Null]_vars

\* a page reset after an analysis whose guide was shown
C17_Witness ==
    /\ Len(lastSubmit) = 1
    /\ FormMounted
    /\ ~isLoading
    /\ currentRepo = <<>>
    /\ repoUrl = InitRepoUrl
    /\ specs = InitSpecs

\* C18: while the guide is displayed, every step but handleNewAnalysis (a
\* copy request, the clipboard's success or failure, the expiry of the
\* copied indicator, the passing of time) leaves the displayed bundle and
\* the repoUrl shown with it as they are, and they are the ones resolved
\* from the submission.
C18_BundleImmutable ==
    [][(GuideMounted /\ ~handleNewAnalysis) =>
          /\ UNCHANGED <<analysisResult, currentRepo>>
          /\ analysisResult =
                 analyzeRepository(lastSubmit[1].repoUrl, lastSubmit[1].specs)
          /\ currentRepo = lastSubmit[1].repoUrl]_vars

\* a guide whose copied indicator has expired, still showing its bundle
C18_Witness ==
    /\ GuideMounted
    /\ lastCopy.label # Null
    /\ lastCopy.elapsed >= CopiedDisplayMs
    /\ copiedCommand = Null
    /\ analysisResult = analyzeRepository(lastSubmit[1].repoUrl, lastSubmit[1].specs)
    /\ currentRepo = lastSubmit[1].repoUrl

\* the specs of the call with the fields other than language, version and
\* packageManager replaced
OtherFields(s, o, g, r, d) ==
    [s EXCEPT !.os = o, !.gpu = g, !.ram = r, !.docker = d]

\* C19: the bundle of a call is the bundle of every call with the same
\* language, version and packageManager, whatever its repoUrl, os, gpu, ram
\* and docker are.
C19_Deterministic ==
    Resolved =>
        \A url \in UrlInputs, o \in OsInputs \cup {""}, g \in GpuInputs,
           r \in RamInputs \cup {""}, d \in BOOLEAN :
            analyzeRepository(url, OtherFields(Submitted, o, g, r, d))
                = analysisResult

\* a bundle resolved for conda that a call for another repoUrl, os, gpu, ram
\* and docker gives as well
C19_Witness ==
    /\ Resolved
    /\ Submitted.language = "python"
    /\ Submitted.packageManager = "conda"
    /\ Submitted.os # ""
    /\ Submitted.ram # ""
    /\ lastSubmit[1].repoUrl # <<>>
    /\ analysisResult.isNull = FALSE
    /\ analyzeRepository(<<>>, OtherFields(Submitted, "", GpuOptions[2], "", TRUE))
           = analysisResult

\* the guide shows the bundle resolved from the submission, loading cleared
Displayed ==
    /\ GuideMounted
    /\ ~isLoading
    /\ analysisResult = analyzeRepository(lastSubmit[1].repoUrl, lastSubmit[1].specs)

\* C20: loading is set exactly while the call of an accepted submission is
\* awaited; it ends only by the guide being displayed with the bundle
\* resolved from the submission; and, time passing and due timers running,
\* it does end.
C20_GuideFollows ==
    /\ [](isLoading <=> Len(analyses) = 1)
    /\ [][(isLoading /\ ~isLoading') => Displayed']_vars
    /\ isLoading ~> Displayed

\* the guide displayed for a submission for rust
C20_Witness ==
    /\ Displayed
    /\ lastSubmit[1].specs.language = "rust"
    /\ currentRepo = lastSubmit[1].repoUrl

\* C21: at most one call of analyzeRepository is awaited; while isLoading
\* is set the submit button is disabled; and the awaited call, like the
\* bundle displayed, is the one of the most recent submission.
C21_OneInFlight ==
    /\ Len(analyses) <= 1
    /\ (FormMounted /\ isLoading) => SubmitDisabled
    /\ \A i \in 1..Len(analyses) :
           /\ analyses[i].repoUrl = lastSubmit[1].repoUrl
           /\ analyses[i].specs = lastSubmit[1].specs
    /\ GuideMounted =>
           analysisResult =
               analyzeRepository(lastSubmit[1].repoUrl, lastSubmit[1].specs)

\* a form with every required field filled, its button disabled only
\* because the submitted analysis is still awaited
C21_Witness ==
    /\ FormMounted
    /\ isLoading
    /\ Len(analyses) = 1
    /\ ~RequiredEmpty
    /\ SubmitDisabled

\* the form no longer holds what was submitted
EditedSinceSubmit ==
    /\ repoUrl # lastSubmit[1].repoUrl
    /\ specs.language # lastSubmit[1].specs.language

\* C22: from the submission on, the stored repoUrl is the one submitted,
\* whatever the form holds meanwhile; and the guide displayed shows that
\* repoUrl and the bundle resolved from the specs as they were submitted.
C22_Snapshot ==
    /\ (isLoading \/ GuideMounted) => currentRepo = lastSubmit[1].repoUrl
    /\ GuideMounted =>
           analysisResult = analyzeRepository(currentRepo, lastSubmit[1].specs)

\* the delay has passed for a submission whose form was edited meanwhile
C22_Witness ==
    /\ FormMounted
    /\ isLoading
    /\ analyses[1].remaining = 0
    /\ EditedSinceSubmit
    /\ currentRepo = lastSubmit[1].repoUrl

\* C23: isLoading is set only while the form, not the guide, is shown; a
\* guide is shown with a non-empty stored repoUrl; and handleNewAnalysis
\* can be triggered only while a guide is shown.
C23_PageInvariant ==
    /\ isLoading => FormMounted
    /\ GuideMounted => Len(currentRepo) > 0
    /\ (ENABLED handleNewAnalysis) => GuideMounted

\* a guide on display: not loading, its repoUrl stored, reset offered
C23_Witness ==
    /\ GuideMounted
    /\ ~isLoading
    /\ Len(currentRepo) > 0
    /\ ENABLED handleNewAnalysis

FormLanguages == {"python", "javascript", "r", "julia", "rust"}

\* C24: every call made through the form has one of the five languages, and
\* no guide displayed shows the placeholder bundle of the default case.
C24_DefaultUnreachable ==
    /\ \A i \in 1..Len(analyses) : analyses[i].specs.language \in FormLanguages
    /\ \A i \in 1..Len(lastSubmit) : lastSubmit[i].specs.language \in FormLanguages
    /\ GuideMounted =>
           /\ analysisResult.techStack # <<"Generic ML Framework">>
           /\ analysisResult.runCommand # DefaultConfig.runCommand

\* the guide of a submission for rust, the last of the five cases
C24_Witness ==
    /\ GuideMounted
    /\ lastSubmit[1].specs.language = "rust"
    /\ analysisResult.techStack = RustConfig(lastSubmit[1].specs).techStack

\* the fields of specs a step gives another value
ChangedFields == {f \in DOMAIN specs : specs'[f] # specs[f]}

\* a step changes no field of specs but these, and not repoUrl
OnlyFields(fields) == ChangedFields \subseteq fields /\ repoUrl' = repoUrl

\* C25: editing repoUrl changes no field of specs; selecting a language
\* changes at most language, version and packageManager; selecting a
\* version, os, gpu, ram, packageManager or docker value sets that field
\* and changes no other field nor repoUrl.
C25_OwnFieldsOnly ==
    [][/\ (\E value \in UrlInputs : SetRepoUrl(value)) => ChangedFields = {}
       /\ \A value \in Range(Languages) : SelectLanguage(value) =>
              /\ OnlyFields({"language", "version", "packageManager"})
              /\ specs'.language = value
       /\ \A value \in VersionInputs(specs.language) : SelectVersion(value) =>
              OnlyFields({"version"}) /\ specs'.version = value
       /\ \A value \in OsInputs : SelectOs(value) =>
              OnlyFields({"os"}) /\ specs'.os = value
       /\ \A value \in GpuInputs : SelectGpu(value) =>
              OnlyFields({"gpu"}) /\ specs'.gpu = value
       /\ \A value \in RamInputs : SelectRam(value) =>
              OnlyFields({"ram"}) /\ specs'.ram = value
       /\ \A value \in ManagerInputs(specs.language) : SelectPackageManager(value) =>
              OnlyFields({"packageManager"}) /\ specs'.packageManager = value
       /\ \A value \in {"true", "false"} : SelectDocker(value) =>
              OnlyFields({"docker"}) /\ specs'.docker = (value = "true")]_vars

\* every field filled, and the language then changed: repoUrl, os, gpu,
\* ram and docker still hold what was entered
C25_Witness ==
    /\ replaced = <<"language", "version", "packageManager">>
    /\ specs.language = "rust"
    /\ Len(repoUrl) > 0
    /\ specs.os # ""
    /\ specs.gpu # "none"
    /\ specs.ram # ""
    /\ specs.docker

\* C26: the form that replaces a guide is the initial one, not the one
\* submitted, with its submit button disabled; and the guide that replaces
\* a form marks no label as copied.
C26_FreshViews ==
    [][/\ (GuideMounted /\ FormMounted') =>
              /\ repoUrl' = <<>>
              /\ specs' = [language |-> "", version |-> "", os |-> "",
                           gpu |-> "none", ram |-> "", packageManager |-> "",
                           docker |-> FALSE]
              /\ specs' # lastSubmit[1].specs
              /\ SubmitDisabled'
       /\ (FormMounted /\ GuideMounted') =>
              /\ copiedCommand' = Null
              /\ \A title \in Range(Titles) : ~Copied(title)']_vars

\* the form shown after the guide of a submission for julia was reset:
\* empty, its button disabled
C26_Witness ==
    /\ FormMounted
    /\ ~isLoading
    /\ Len(lastSubmit) = 1
    /\ lastSubmit[1].specs.language = "julia"
    /\ specs.language = ""
    /\ SubmitDisabled
    /\ copiedCommand = Null

====
